---- MODULE Spec2Model ----
(***************************************************************************)
(* The item CRUD service of src/main.py: one SQLite table of items, the    *)
(* six FastAPI routes, and the EventBridge call made after a mutation.     *)
(*                                                                         *)
(* Every request runs in its own worker thread with its own Session, so a  *)
(* handler is a sequence of steps that other requests interleave with: a   *)
(* step is one interaction with the database (session.get, session.commit, *)
(* session.refresh) or with the event bus (put_events), together with the  *)
(* local code around it.                                                   *)
(*                                                                         *)
(* Python None and JSON null are the string Null; a float is the string of *)
(* its literal; a request body is a function from the names of the fields  *)
(* the caller supplied to their values (pydantic's fields_set).            *)
(***************************************************************************)
EXTENDS Integers, Sequences, FiniteSets, TLC

VARIABLES table, req, response

vars == <<table, req, response>>

----------------------------------------------------------------------------
(* Bounds of the model *)

\* largest primary key a Create may be given
MaxId == 2

\* largest number of rows of the tables the listing is applied to
MaxRows == 102

\* the worker threads serving requests
Procs == {1, 2}

----------------------------------------------------------------------------
(* Data *)

Null == "None"

\* Item.id before the INSERT (default=None); SQLite rowids start at 1
NoId == 0

Fields == {"nome", "descricao", "preco", "imposto"}

\* session.get / query result when no row matches; also "no object loaded"
NoRow == [id |-> NoId, nome |-> Null, descricao |-> Null, preco |-> Null,
          imposto |-> Null]

\* absent request or response body
NoBody == <<>>

\* Query(default=100, le=100)
LimitMax == 100

Ids == 1..MaxId

\* a value a caller sends for a field
Sample(f) ==
    IF f = "nome" THEN "a"
    ELSE IF f = "descricao" THEN "d"
    ELSE IF f = "preco" THEN "2.5"
    ELSE "0.5"

\* JSON bodies: every subset of the fields; each field alone as null; an
\* empty nome
Bodies ==
    {[f \in D |-> Sample(f)] : D \in SUBSET Fields}
        \cup {[f \in {g} |-> Null] : g \in Fields}
        \cup {[nome |-> ""], [nome |-> "", preco |-> "1.0"]}

\* the bodies sent to POST /items/ by requests that may overlap
CreateBodies ==
    { [nome |-> "a", preco |-> "1.0"],
      [nome |-> "", preco |-> "1.0"],
      [nome |-> "a"],
      [preco |-> "1.0"],
      [nome |-> Null, preco |-> "1.0"] }

\* the bodies sent to PUT /items/{item_id} by requests that may overlap
UpdateBodies ==
    { [descricao |-> "d"],
      [nome |-> ""],
      [nome |-> Null],
      [preco |-> Null] }

\* the offset and limit of GET /items/
Offsets == {-1, 0, 1, 100}

Limits == {-1, 0, 1, 100, 101, 1000}

\* <<offset, limit>> of the listings among the other requests: the defaults,
\* one item, no limit, more than the maximum
Pages == {<<0, 100>>, <<1, 1>>, <<0, -1>>, <<0, 101>>}

----------------------------------------------------------------------------
(* Responses *)

Response(status, body) == [status |-> status, body |-> body]

\* variant: the 404 raised with the status of a success
NotFound_wrong_status == Response(200, [detail |-> "Item não encontrado"])

\* HTTPException(status_code=404, detail="Item não encontrado")
NotFound == Response(404, [detail |-> "Item não encontrado"])

\* FastAPI's RequestValidationError response
Unprocessable == Response(422, [detail |-> "validation error"])

\* an exception that leaves the handler
ServerError == Response(500, [detail |-> "Internal Server Error"])

----------------------------------------------------------------------------
(* The table *)

\* session.get(Item, item_id)
Get(t, id) == IF \E r \in t : r.id = id THEN CHOOSE r \in t : r.id = id
              ELSE NoRow

\* the rowid SQLite gives an INTEGER PRIMARY KEY without AUTOINCREMENT
NextId(t) == IF t = {} THEN 1
             ELSE (CHOOSE i \in {r.id : r \in t} :
                      \A j \in {r.id : r \in t} : j <= i) + 1

\* variant: a DELETE without its WHERE clause
DeleteRow_all(t, id) == {}

\* DELETE FROM item WHERE id = ?
DeleteRow(t, id) == {r \in t : r.id # id}

\* variant: nome and preco as nullable columns
NotNullOk_unchecked(row) == TRUE

\* nome: str and preco: float are NOT NULL columns
NotNullOk(row) == row.nome # Null /\ row.preco # Null

RECURSIVE Scan(_, _, _)
Scan(t, i, hi) ==
    IF i > hi THEN <<>>
    ELSE (IF Get(t, i) # NoRow THEN <<Get(t, i)>> ELSE <<>>) \o Scan(t, i + 1, hi)

\* select(Item): the rows in rowid order
SelectAll(t) == Scan(t, 1, NextId(t) - 1)

\* .offset(offset).limit(limit) as SQLite evaluates them: a negative OFFSET is
\* 0, a negative LIMIT is no limit
Page(rows, offset, limit) ==
    LET off == IF offset < 0 THEN 0 ELSE offset
        last == IF limit < 0 \/ off + limit > Len(rows) THEN Len(rows)
                ELSE off + limit
    IN  SubSeq(rows, off + 1, last)

----------------------------------------------------------------------------
(* Models *)

\* variant: ItemCreate with preco optional
Validate_preco_optional(item) == "nome" \in DOMAIN item /\ item["nome"] # Null

\* ItemCreate(ItemBase): nome and preco are required and not Optional
Validate(item) ==
    /\ "nome" \in DOMAIN item /\ item["nome"] # Null
    /\ "preco" \in DOMAIN item /\ item["preco"] # Null

\* Item.model_validate(item): absent optional fields take their default
ModelValidate(item) ==
    [id |-> NoId,
     nome |-> IF "nome" \in DOMAIN item THEN item["nome"] ELSE Null,
     descricao |-> IF "descricao" \in DOMAIN item THEN item["descricao"] ELSE Null,
     preco |-> IF "preco" \in DOMAIN item THEN item["preco"] ELSE Null,
     imposto |-> IF "imposto" \in DOMAIN item THEN item["imposto"] ELSE Null]

\* variant: item.model_dump() without exclude_unset
ModelDumpSet_all(item) ==
    [f \in Fields |-> IF f \in DOMAIN item THEN item[f] ELSE Null]

\* item.model_dump(exclude_unset=True)
ModelDumpSet(item) == item

\* for key, value in item_data.items(): setattr(db_item, key, value)
SetAttrs(db_item, item_data) ==
    [id |-> db_item.id,
     nome |-> IF "nome" \in DOMAIN item_data THEN item_data["nome"]
              ELSE db_item.nome,
     descricao |-> IF "descricao" \in DOMAIN item_data THEN item_data["descricao"]
                   ELSE db_item.descricao,
     preco |-> IF "preco" \in DOMAIN item_data THEN item_data["preco"]
               ELSE db_item.preco,
     imposto |-> IF "imposto" \in DOMAIN item_data THEN item_data["imposto"]
                 ELSE db_item.imposto]

\* the attributes the unit of work flushes: those whose value differs from
\* the loaded one
Dirty(db_item, item_data) ==
    {f \in DOMAIN item_data : item_data[f] # db_item[f]}

\* UPDATE item SET <dirty columns> WHERE id = ?
UpdateRow(row, db_item, dirty) ==
    [id |-> row.id,
     nome |-> IF "nome" \in dirty THEN db_item.nome ELSE row.nome,
     descricao |-> IF "descricao" \in dirty THEN db_item.descricao
                   ELSE row.descricao,
     preco |-> IF "preco" \in dirty THEN db_item.preco ELSE row.preco,
     imposto |-> IF "imposto" \in dirty THEN db_item.imposto ELSE row.imposto]

----------------------------------------------------------------------------
(* Events *)

\* variant: every handler passing "ItemCreated"
DetailType_always_created(op) == "ItemCreated"

\* the DetailType each handler passes to send_event_to_eventbridge
DetailType(op) ==
    IF op = "create" THEN "ItemCreated"
    ELSE IF op = "update" THEN "ItemUpdated"
    ELSE "ItemDeleted"

\* one call of send_event_to_eventbridge: delivered is FALSE when put_events
\* (or json.dumps) raised and the except clause printed the error
Event(detail_type, item_data, delivered) ==
    [kind |-> detail_type, payload |-> item_data, delivered |-> delivered]

----------------------------------------------------------------------------
(* Requests *)

\* a worker with no request; the fields of a worker serving one are the
\* handler's position (pc), its arguments, its Session (db_item, the dirty
\* attributes, the pending statement, whether commit has returned) and the
\* calls of send_event_to_eventbridge it has made
Idle ==
    [pc |-> "idle", op |-> "none", item_id |-> NoId, item |-> NoBody,
     offset |-> 0, limit |-> 0, db_item |-> NoRow, dirty |-> {},
     pending |-> "none", calls |-> <<>>, committed |-> FALSE]

\* the request a worker has just answered, with the response
Answer(r, resp) ==
    [op |-> r.op, item_id |-> r.item_id, item |-> r.item, offset |-> r.offset,
     limit |-> r.limit, calls |-> r.calls, committed |-> r.committed,
     status |-> resp.status, body |-> resp.body]

\* no request was answered by the last step
NoAnswer == Answer(Idle, Response(0, NoBody))

Free(p) == req[p].pc = "idle"

\* a worker takes a request when those before it are busy; the response of
\* the last step has been read by then
Takes(p) ==
    /\ Free(p) /\ \A q \in Procs : q < p => ~Free(q)
    /\ response = NoAnswer

\* variant: create_item sending its event before session.commit()
CreateAfterAdd_notify_first == "notify"

\* where create_item goes after session.add(db_item)
CreateAfterAdd == "commit"

\* variant: delete_item without its call of send_event_to_eventbridge
DeleteAfterGet_skip_event == "commit"

\* where delete_item goes after session.get found the item
DeleteAfterGet == "notify"

\* Creates whose INSERT is still to come
PendingInserts == Cardinality({p \in Procs : req[p].pending = "insert"})

\* the handler of worker p goes on as r
Goes(p, r) == req' = [req EXCEPT ![p] = r] /\ response' = NoAnswer

\* the handler of worker p, in state r, ends with resp; the Session is closed
Ends(p, r, resp) == req' = [req EXCEPT ![p] = Idle] /\ response' = Answer(r, resp)

\* the client has read the response
Sent ==
    /\ response # NoAnswer
    /\ response' = NoAnswer
    /\ UNCHANGED <<table, req>>

Init ==
    /\ table = {}
    /\ req = [p \in Procs |-> Idle]
    /\ response = NoAnswer

----------------------------------------------------------------------------
(* send_event_to_eventbridge *)

\* variant: send_event_to_eventbridge without its except clause
Absorbed_reraise(delivered) == delivered

\* try: put_events(...) except Exception: print(...) -- TRUE when the handler
\* goes on after the call
Absorbed(delivered) == TRUE

\* the status of a handler that returns normally
SuccessStatus(op) ==
    IF op = "create" THEN 201 ELSE IF op = "delete" THEN 204 ELSE 200

\* create_item and update_item: send the event, then return db_item;
\* delete_item: send the event, then go on to session.delete(item)
SendEvent(p, delivered) ==
    LET r == req[p]
        sent == [r EXCEPT !.calls =
                     Append(@, Event(DetailType(r.op), r.db_item, delivered))]
    IN  /\ r.pc = "notify"
        /\ IF ~Absorbed(delivered) THEN Ends(p, sent, ServerError)
           ELSE IF r.op = "delete" THEN Goes(p, [sent EXCEPT !.pc = "commit"])
           ELSE Ends(p, sent, Response(SuccessStatus(r.op), r.db_item))
        /\ UNCHANGED table

----------------------------------------------------------------------------
(* POST /items/ *)

\* request validation, Item.model_validate(item), session.add(db_item)
CreateItem(p, item) ==
    LET r == [Idle EXCEPT !.op = "create", !.item = item]
    IN  /\ Takes(p)
        /\ Validate(item) => NextId(table) + PendingInserts <= MaxId
        /\ IF ~Validate(item) THEN Ends(p, r, Unprocessable)
           ELSE Goes(p, [r EXCEPT !.pc = CreateAfterAdd,
                                  !.db_item = ModelValidate(item),
                                  !.pending = "insert"])
        /\ UNCHANGED table

\* session.commit(): the INSERT, which raises when a NOT NULL column is NULL
\* (IntegrityError) or when the storage engine fails
CreateItemCommit(p, ok) ==
    LET r == req[p]
        id == NextId(table)
    IN  /\ r.pc = "commit" /\ r.op = "create"
        /\ IF ok /\ NotNullOk(r.db_item)
           THEN /\ table' = table \cup {[r.db_item EXCEPT !.id = id]}
                /\ Goes(p, [r EXCEPT !.pc = "refresh", !.item_id = id,
                                     !.db_item = NoRow, !.pending = "none",
                                     !.committed = TRUE])
           ELSE /\ Ends(p, r, ServerError)
                /\ UNCHANGED table

\* session.refresh(db_item): reload the row, which fails when it is gone
Refresh(p) ==
    LET r == req[p]
        row == Get(table, r.item_id)
    IN  /\ r.pc = "refresh"
        /\ IF row = NoRow THEN Ends(p, r, ServerError)
           ELSE Goes(p, [r EXCEPT !.pc = "notify", !.db_item = row])
        /\ UNCHANGED table

----------------------------------------------------------------------------
(* GET /items/ and GET /items/{item_id} *)

ReadItems(p, offset, limit) ==
    LET r == [Idle EXCEPT !.op = "list", !.offset = offset, !.limit = limit]
    IN  /\ Takes(p)
        /\ IF limit > LimitMax THEN Ends(p, r, Unprocessable)
           ELSE Ends(p, r, Response(200, Page(SelectAll(table), offset, limit)))
        /\ UNCHANGED table

ReadItem(p, item_id) ==
    LET r == [Idle EXCEPT !.op = "read", !.item_id = item_id]
        item == Get(table, item_id)
    IN  /\ Takes(p)
        /\ IF item = NoRow THEN Ends(p, r, NotFound)
           ELSE Ends(p, r, Response(200, item))
        /\ UNCHANGED table

----------------------------------------------------------------------------
(* PUT /items/{item_id} *)

\* session.get, the 404, the setattr loop and session.add(db_item)
UpdateItem(p, item_id, item) ==
    LET r == [Idle EXCEPT !.op = "update", !.item_id = item_id, !.item = item]
        db_item == Get(table, item_id)
        item_data == ModelDumpSet(item)
        dirty == Dirty(db_item, item_data)
    IN  /\ Takes(p)
        /\ IF db_item = NoRow THEN Ends(p, r, NotFound)
           ELSE Goes(p, [r EXCEPT !.pc = "commit",
                                  !.db_item = SetAttrs(db_item, item_data),
                                  !.dirty = dirty,
                                  !.pending = IF dirty = {} THEN "none"
                                              ELSE "update"])
        /\ UNCHANGED table

\* session.commit(): nothing to flush; or the UPDATE, which raises when a NOT
\* NULL column is set to NULL (IntegrityError), when no row matches
\* (StaleDataError) or when the storage engine fails
UpdateItemCommit(p, ok) ==
    LET r == req[p]
        row == Get(table, r.item_id)
        new == UpdateRow(row, r.db_item, r.dirty)
        after == [r EXCEPT !.pc = "refresh", !.item = NoBody, !.db_item = NoRow,
                           !.dirty = {}, !.pending = "none", !.committed = TRUE]
    IN  /\ r.pc = "commit" /\ r.op = "update"
        /\ IF r.dirty = {}
           THEN /\ Goes(p, after)
                /\ UNCHANGED table
           ELSE IF ok /\ row # NoRow /\ NotNullOk(new)
           THEN /\ table' = (table \ {row}) \cup {new}
                /\ Goes(p, after)
           ELSE /\ Ends(p, r, ServerError)
                /\ UNCHANGED table

----------------------------------------------------------------------------
(* DELETE /items/{item_id} *)

\* session.get and the 404
DeleteItem(p, item_id) ==
    LET r == [Idle EXCEPT !.op = "delete", !.item_id = item_id]
        item == Get(table, item_id)
    IN  /\ Takes(p)
        /\ IF item = NoRow THEN Ends(p, r, NotFound)
           ELSE Goes(p, [r EXCEPT !.pc = DeleteAfterGet, !.db_item = item])
        /\ UNCHANGED table

\* session.delete(item); session.commit(): the DELETE (a DELETE that matches
\* no row only warns), or an error of the storage engine
DeleteItemCommit(p, ok) ==
    LET r == req[p]
    IN  /\ r.pc = "commit" /\ r.op = "delete"
        /\ IF ok
           THEN /\ table' = DeleteRow(table, r.item_id)
                /\ Ends(p, [r EXCEPT !.committed = TRUE],
                        Response(SuccessStatus("delete"), NoBody))
           ELSE /\ Ends(p, r, ServerError)
                /\ UNCHANGED table

----------------------------------------------------------------------------
(* Specifications *)

\* a step of one of the workers, for requests with the given bodies
Step(workers, creates, updates) ==
    \/ Sent
    \/ \E p \in workers :
        \/ \E item \in creates : CreateItem(p, item)
        \/ \E ok \in BOOLEAN : CreateItemCommit(p, ok)
        \/ Refresh(p)
        \/ \E delivered \in BOOLEAN : SendEvent(p, delivered)
        \/ \E page \in Pages : ReadItems(p, page[1], page[2])
        \/ \E item_id \in Ids : ReadItem(p, item_id)
        \/ \E item_id \in Ids, item \in updates : UpdateItem(p, item_id, item)
        \/ \E ok \in BOOLEAN : UpdateItemCommit(p, ok)
        \/ \E item_id \in Ids : DeleteItem(p, item_id)
        \/ \E ok \in BOOLEAN : DeleteItemCommit(p, ok)

Next == Step(Procs, CreateBodies, UpdateBodies)

\* requests served concurrently by the worker threads
Spec == Init /\ [][Next]_vars

\* a sequence of requests with any bodies, served by one worker: each is
\* answered before the next one arrives
SeqNext == Step({1}, Bodies, Bodies)

SeqSpec == Init /\ [][SeqNext]_vars

\* a table of n items as n Creates leave it
Rows(n) ==
    {[id |-> i, nome |-> "a", descricao |-> Null, preco |-> "1.0",
      imposto |-> Null] : i \in 1..n}

ListInit ==
    /\ table \in {Rows(n) : n \in 0..MaxRows}
    /\ req = [p \in Procs |-> Idle]
    /\ response = NoAnswer

ListNext ==
    \E p \in Procs, offset \in Offsets, limit \in Limits :
        ReadItems(p, offset, limit)

\* listings of tables of up to MaxRows items
ListSpec == ListInit /\ [][ListNext]_vars

----------------------------------------------------------------------------
(* Steps, as the properties below see them *)

\* this step ends a request: its answer is response'
Answered == response' # NoAnswer /\ response' # response

\* this step is worker p's call of send_event_to_eventbridge
Sends(p) == req[p].pc = "notify" /\ req'[p].pc # "notify"

\* the calls worker p has made once its step is done
CallsAfter(p) == IF req'[p].pc = "idle" THEN response'.calls ELSE req'[p].calls

\* this step is worker p's session.commit(), and it returned
Commits(p) ==
    /\ req[p].pc = "commit"
    /\ IF req[p].op = "delete" THEN req'[p].pc = "idle" /\ response'.committed
       ELSE req'[p].pc = "refresh"

\* worker p takes a request in this step
Arrives(p) ==
    /\ req[p].pc = "idle"
    /\ req'[p].pc # "idle" \/ (req' = req /\ response = NoAnswer /\ Answered)

\* the request worker p takes in this step
Arrival(p) == IF req'[p].pc = "idle" THEN response' ELSE req'[p]

\* the rows other than the one with this id
Others(t, id) == {r \in t : r.id # id}

----------------------------------------------------------------------------
(* C1 *)

\* C1: in a sequence of requests, every request whose mutation was committed
\* has made exactly one call of the notifier when it is answered, with the
\* event kind of its operation and with the stored record as payload: the
\* record as stored after a Create or an Update, the record as stored before
\* a Delete.
C1_OneEventPerMutation ==
    [][(Answered /\ response'.committed) =>
          LET a == response'
          IN  /\ a.op \in {"create", "update", "delete"}
              /\ Len(a.calls) = 1
              /\ a.calls[1].kind = (IF a.op = "create" THEN "ItemCreated"
                                    ELSE IF a.op = "update" THEN "ItemUpdated"
                                    ELSE "ItemDeleted")
              /\ a.calls[1].payload # NoRow
              /\ a.calls[1].payload =
                     (IF a.op = "delete" THEN Get(table, a.item_id)
                      ELSE Get(table', a.item_id))]_vars

\* an Update of descricao was answered after its one ItemUpdated event
C1_Witness ==
    /\ response.op = "update" /\ response.status = 200
    /\ Len(response.calls) = 1
    /\ response.calls[1].payload.descricao = "d"
    /\ response.calls[1].payload = Get(table, response.item_id)

----------------------------------------------------------------------------
(* C2 *)

\* C2: when the commit of an Update returns, the stored record with the
\* request's id holds the supplied value in every provided field and the
\* value it had before in every other field and in id; the other records
\* are unchanged.
C2_PartialUpdate ==
    [][\A p \in Procs :
          (Commits(p) /\ req[p].op = "update") =>
              LET id == req[p].item_id
                  item == req[p].item
                  old == Get(table, id)
                  new == Get(table', id)
              IN  /\ old # NoRow /\ new # NoRow
                  /\ new.id = old.id
                  /\ \A f \in Fields :
                        new[f] = IF f \in DOMAIN item THEN item[f] ELSE old[f]
                  /\ Others(table', id) = Others(table, id)
                  /\ Cardinality(table') = Cardinality(table)]_vars

\* an Update of descricao alone is committed on a record whose other fields
\* are set, next to another record
C2_Witness ==
    \E p \in Procs :
        /\ req[p].op = "update" /\ req[p].pc = "refresh"
        /\ Cardinality(table) = 2
        /\ LET row == Get(table, req[p].item_id)
           IN  row.descricao = "d" /\ row.nome = "" /\ row.preco = "1.0"

----------------------------------------------------------------------------
(* C3 *)

\* C3: a call of the notifier that fails leaves the table as it is and the
\* handler goes on as after a call that succeeds: Create and Update answer
\* 201 and 200 with the item, Delete goes on to its commit and answers 204
\* with no body.
C3_FailureAbsorbed ==
    [][/\ \A p \in Procs :
             (Sends(p) /\ ~CallsAfter(p)[Len(CallsAfter(p))].delivered) =>
                 /\ table' = table
                 /\ req[p].op = "create" =>
                        /\ req'[p].pc = "idle"
                        /\ response'.status = 201
                        /\ response'.body = req[p].db_item
                 /\ req[p].op = "update" =>
                        /\ req'[p].pc = "idle"
                        /\ response'.status = 200
                        /\ response'.body = req[p].db_item
                 /\ req[p].op = "delete" => req'[p].pc = "commit"
       /\ \A p \in Procs :
             (Commits(p) /\ req[p].op = "delete") =>
                 /\ response'.status = 204
                 /\ response'.body = NoBody
                 /\ table' = Others(table, req[p].item_id)]_vars

\* a Create was answered 201 although its event was not delivered, and the
\* item is stored
C3_Witness ==
    /\ response.op = "create" /\ response.status = 201
    /\ Len(response.calls) = 1 /\ ~response.calls[1].delivered
    /\ response.body \in table

----------------------------------------------------------------------------
(* C4 *)

\* C4: no listing holds more than 100 records, whatever limit and offset the
\* caller sends.
C4_ListAtMost100 ==
    (response.op = "list" /\ response.status = 200) =>
        Len(response.body) <= LimitMax

----------------------------------------------------------------------------
(* C5 *)

\* C5: a Create whose body omits nome or preco is answered 422 in the step
\* that takes it, with the table unchanged, nothing committed and no call of
\* the notifier.
C5_CreateRejected ==
    [][\A p \in Procs :
          (/\ Arrives(p)
           /\ Arrival(p).op = "create"
           /\ \/ "nome" \notin DOMAIN Arrival(p).item
              \/ "preco" \notin DOMAIN Arrival(p).item) =>
              /\ req'[p].pc = "idle"
              /\ response'.status = 422
              /\ response'.calls = <<>>
              /\ ~response'.committed
              /\ table' = table]_vars

\* a Create without preco was answered 422 while an item is stored
C5_Witness ==
    /\ response.op = "create" /\ response.status = 422
    /\ "preco" \notin DOMAIN response.item
    /\ table # {}

----------------------------------------------------------------------------
(* C6 *)

\* C6, as claimed: every stored item has an id of its own, a non-empty nome
\* and a preco that is not null.
C6_NonEmptyNome ==
    /\ \A r1, r2 \in table : r1.id = r2.id => r1 = r2
    /\ \A r \in table : r.nome # Null /\ r.nome # "" /\ r.preco # Null

\* C6, amended: every stored item has an id of its own (an integer from 1),
\* a nome that is not null, which may be empty, and a preco that is not null.
C6_NotNull ==
    /\ \A r1, r2 \in table : r1.id = r2.id => r1 = r2
    /\ \A r \in table : r.id >= 1 /\ r.nome # Null /\ r.preco # Null

\* an Update that sets nome to null was answered 500 while two items are
\* stored, one of them with an empty nome
C6_Witness ==
    /\ response.op = "update" /\ response.status = 500
    /\ response.item = [nome |-> Null]
    /\ Cardinality(table) = 2
    /\ \E r \in table : r.nome = ""

----------------------------------------------------------------------------
(* C7 *)

\* C7: a Get-one, an Update or a Delete whose id matches no stored record is
\* answered, in the step that takes it, 404 with the detail 'Item não
\* encontrado'; the table is unchanged and no call of the notifier is made.
C7_NotFound ==
    [][\A p \in Procs :
          (/\ Arrives(p)
           /\ Arrival(p).op \in {"read", "update", "delete"}
           /\ Get(table, Arrival(p).item_id) = NoRow) =>
              /\ req'[p].pc = "idle"
              /\ response'.status = 404
              /\ response'.body = [detail |-> "Item não encontrado"]
              /\ response'.calls = <<>>
              /\ table' = table]_vars

\* a Delete of an id that is not stored was answered 404 while another item
\* is stored
C7_Witness ==
    /\ response.op = "delete" /\ response.status = 404
    /\ response.calls = <<>>
    /\ table # {}

----------------------------------------------------------------------------
(* C8 *)

\* C8: when the commit of a Delete returns, the request is answered 204 with
\* no body and the table has lost the record with its id and no other; an id
\* that is not stored gets stored again only by the commit of a Create, and
\* a Get-one of an id that is not stored is answered 404.
C8_DeleteRemoves ==
    [][/\ \A p \in Procs :
             (Commits(p) /\ req[p].op = "delete") =>
                 /\ response'.status = 204
                 /\ response'.body = NoBody
                 /\ Get(table', req[p].item_id) = NoRow
                 /\ Others(table', req[p].item_id) = Others(table, req[p].item_id)
       /\ \A id \in {r.id : r \in table'} \ {r.id : r \in table} :
             \E p \in Procs :
                 /\ Commits(p) /\ req[p].op = "create"
                 /\ req'[p].item_id = id
       /\ \A p \in Procs :
             (/\ Arrives(p)
              /\ Arrival(p).op = "read"
              /\ Get(table, Arrival(p).item_id) = NoRow) =>
                 response'.status = 404]_vars

\* a Delete was answered 204 and the other item is still stored
C8_Witness ==
    /\ response.op = "delete" /\ response.status = 204
    /\ response.body = NoBody
    /\ Get(table, response.item_id) = NoRow
    /\ Cardinality(table) = 1

----------------------------------------------------------------------------
(* C9 *)

\* C9, as claimed: in Create, Update and Delete the notifier is called only
\* after the request's commit, with nothing pending in its Session.
C9_EventAfterCommit ==
    \A p \in Procs :
        /\ req[p].pc = "notify" =>
               req[p].committed /\ req[p].pending = "none"
        /\ req[p].calls # <<>> => req[p].committed

\* C9, amended: in Create and Update the notifier is called only after the
\* request's commit; in Delete it is called before the deletion is issued
\* and committed; in all three the request's Session holds no uncommitted
\* change while the call runs.
C9_EventAfterCommitButDelete ==
    /\ \A p \in Procs :
          /\ req[p].pc = "notify" => req[p].pending = "none"
          /\ (/\ req[p].op \in {"create", "update"}
              /\ req[p].pc = "notify" \/ req[p].calls # <<>>) =>
                 req[p].committed
          /\ req[p].op = "delete" => ~req[p].committed
          /\ (req[p].op = "delete" /\ req[p].pc = "commit") =>
                 Len(req[p].calls) = 1
    /\ (response.op \in {"create", "update"} /\ response.calls # <<>>) =>
           response.committed

\* an Update is about to send its event after its commit while a Delete has
\* sent its event and not yet committed
C9_Witness ==
    \E p, q \in Procs :
        /\ req[p].op = "update" /\ req[p].pc = "notify" /\ req[p].committed
        /\ req[q].op = "delete" /\ req[q].pc = "commit"
        /\ req[q].calls # <<>> /\ ~req[q].committed

----------------------------------------------------------------------------
(* C10 *)

\* C10: a Delete that found its record has emitted one ItemDeleted event
\* with the record it read before it issues the deletion, and nothing takes
\* the event back: a Delete answered 500, which removed nothing, has emitted
\* its event.
C10_DeleteEventFirst ==
    /\ \A p \in Procs :
          (req[p].op = "delete" /\ req[p].pc = "commit") =>
              /\ ~req[p].committed
              /\ Len(req[p].calls) = 1
              /\ req[p].calls[1].kind = "ItemDeleted"
              /\ req[p].calls[1].payload = req[p].db_item
              /\ req[p].db_item.id = req[p].item_id
    /\ (response.op = "delete" /\ response.status = 500) =>
           /\ ~response.committed
           /\ Len(response.calls) = 1
           /\ response.calls[1].kind = "ItemDeleted"
           /\ response.calls[1].payload.id = response.item_id

\* a Delete was answered 500 after its ItemDeleted event was delivered, and
\* the record is still stored
C10_Witness ==
    /\ response.op = "delete" /\ response.status = 500
    /\ Len(response.calls) = 1 /\ response.calls[1].delivered
    /\ response.calls[1].payload = Get(table, response.item_id)

====
